---- MODULE Spec2Model ----
(***************************************************************************)
(* A model of ebird/pages/checklists.py: the extraction of a checklist     *)
(* record from a parsed eBird checklist page.                              *)
(*                                                                         *)
(* The document tree is modelled by what the queries of the code can see   *)
(* of it: for each element the code looks up, whether it is there, whether *)
(* the companion element or attribute the code then reads is there, and    *)
(* the text it carries.  A text that the code splits into words is a       *)
(* sequence of tokens; a text that the code strips and parses is a         *)
(* sequence of characters.  The empty token sequence is the empty text;    *)
(* texts made of blanks only are not among the documents.  A Python value  *)
(* is a tagged record, a Python dict a function on its keys, and the       *)
(* outcome of a call is either Return(value) or Raise(exception class,     *)
(* args).                                                                  *)
(***************************************************************************)
EXTENDS Integers, Sequences, FiniteSets, TLC

VARIABLES doc, entry, pc, checklist, results, policy, outcome, calls

vars == <<doc, entry, pc, checklist, results, policy, outcome, calls>>

(***************************************************************************)
(* Bounds of the model.                                                    *)
(***************************************************************************)
\* other observers listed in the checklist-others container
MaxOthers == 1
\* observation items in the species list
MaxEntries == 2
\* tokens of a distance or area text
MaxTokens == 2

(***************************************************************************)
(* Python values and call outcomes.                                        *)
(***************************************************************************)
None == [py |-> "None", v |-> <<>>]
Str(s) == [py |-> "str", v |-> s]
PyInt(n) == [py |-> "int", v |-> n]
Float(tenths) == [py |-> "float", v |-> tenths]
Bool(b) == [py |-> "bool", v |-> b]
Tuple(a, b) == [py |-> "tuple", v |-> <<a, b>>]
List(s) == [py |-> "list", v |-> s]
Dict(d) == [py |-> "dict", v |-> d]
Datetime(h, m) == [py |-> "datetime", v |-> <<h, m>>]

\* the outcome of a call: a returned value, or a raised exception with its
\* class and its args
Return(v) == [exc |-> "", kind |-> "return", val |-> v]
Raise(exc, args) == [exc |-> exc, kind |-> "raise", val |-> args]
NoOutcome == [exc |-> "", kind |-> "running", val |-> <<>>]

Returned(o) == o.kind = "return"
Raised(o) == o.kind = "raise"

\* bool(v) as Python computes it for the values the code tests
Truthy(v) ==
    CASE v.py = "None" -> FALSE
      [] v.py = "str" -> v.v # <<>>
      [] v.py = "list" -> v.v # <<>>
      [] v.py = "int" -> v.v # 0
      [] v.py = "bool" -> v.v
      [] OTHER -> TRUE

EmptyDict == [k \in {} |-> None]

\* the first raised outcome of a sequence of outcomes evaluated in order
RECURSIVE FirstRaise(_)
FirstRaise(outs) ==
    IF outs = <<>> THEN NoOutcome
    ELSE IF Raised(Head(outs)) THEN Head(outs)
    ELSE FirstRaise(Tail(outs))

(***************************************************************************)
(* The document: elements the code queries.                                *)
(***************************************************************************)
\* a labelled field: the label element, the companion element read next
\* (badge span, dd, next sibling) and the companion's text
NoEl == [el |-> FALSE]
NoCompanion == [el |-> TRUE, companion |-> FALSE]
WithText(t) == [el |-> TRUE, companion |-> TRUE, text |-> t]

HasText(f) == f.el /\ f.companion

\* the <time> element and its datetime attribute
NoTimeEl == [el |-> FALSE]
TimeNoAttr == [el |-> TRUE, attr |-> "missing"]
TimeEmpty == [el |-> TRUE, attr |-> "empty"]
TimeMalformed == [el |-> TRUE, attr |-> "malformed"]
TimeStamp(h, m) == [el |-> TRUE, attr |-> "stamp", hour |-> h, minute |-> m]

(***************************************************************************)
(* Atomic field extractors.                                                *)
(***************************************************************************)
\* dt.strftime("%I:%M %p"): the 12-hour clock text, as its two tokens
strftime_I_M_p(h, m) ==
    << [hh |-> IF h % 12 = 0 THEN 12 ELSE h % 12, mm |-> m],
       IF h < 12 THEN "AM" ELSE "PM" >>

_scrape_time(node) ==
    IF ~node.time.el THEN Raise("AttributeError", <<"attrs">>)
    ELSE IF node.time.attr = "missing" THEN Raise("KeyError", <<"datetime">>)
    ELSE IF node.time.attr = "empty" THEN Return(None)
    ELSE IF node.time.attr = "malformed" THEN Raise("ValueError", <<"strptime">>)
    ELSE Return(Str(strftime_I_M_p(node.time.hour, node.time.minute)))

_scrape_date(node) ==
    IF ~node.time.el THEN Raise("TypeError", <<"subscript">>)
    ELSE IF node.time.attr = "missing" THEN Raise("KeyError", <<"datetime">>)
    ELSE IF node.time.attr \in {"empty", "malformed"}
         THEN Raise("ValueError", <<"strptime">>)
    ELSE Return(Datetime(node.time.hour, node.time.minute))

_scrape_party_size(node) ==
    IF ~node.party.el THEN Raise("AttributeError", <<"find_next_sibling">>)
    ELSE IF ~node.party.companion THEN Raise("AttributeError", <<"text">>)
    ELSE Return(Str(node.party.text))

_scrape_distance(node) ==
    IF ~node.distance.el THEN Return(None)
    ELSE IF ~node.distance.companion THEN Raise("AttributeError", <<"text">>)
    ELSE Return(Str(node.distance.text))

_scrape_distance_units ==
    [t \in {"kilometer(s)", "kilometre(s)", "km(s)", "kilometers",
            "kilometres", "km", "kms", "mile(s)", "miles"} |->
        IF t \in {"mile(s)", "miles"} THEN "mi" ELSE "km"]

_scrape_area_units ==
    [t \in {"hectare(s)", "hectares", "ha", "acre(s)", "acres"} |->
        IF t \in {"acre(s)", "acres"} THEN "acre" ELSE "ha"]

\* str.lower() on the tokens of the model
lower(t) ==
    CASE t = "HA" -> "ha"
      [] t = "Hectares" -> "hectares"
      [] t = "KM" -> "km"
      [] t = "Miles" -> "miles"
      [] OTHER -> t

\* float(): the tokens that parse, with their value in tenths
FloatTokens == {"2", "1.5"}
float(t) == IF t = "2" THEN Float(20) ELSE Float(15)

_scrape_area(node) ==
    IF ~node.area.el THEN Return(Tuple(None, None))
    ELSE IF ~node.area.companion THEN Raise("AttributeError", <<"text">>)
    ELSE LET values == [i \in DOMAIN node.area.text |-> lower(node.area.text[i])]
         IN IF Len(values) < 1 THEN Raise("IndexError", <<"list index out of range">>)
            ELSE IF values[1] \notin FloatTokens THEN Raise("ValueError", <<"float">>)
            ELSE IF Len(values) < 2 THEN Raise("IndexError", <<"list index out of range">>)
            ELSE IF values[2] \notin DOMAIN _scrape_area_units
                 THEN Raise("KeyError", <<values[2]>>)
            ELSE Return(Tuple(float(values[1]), Str(<<_scrape_area_units[values[2]]>>)))

_scrape_duration(node) ==
    IF ~node.duration.el THEN Return(None)
    ELSE IF ~node.duration.companion THEN Raise("AttributeError", <<"text">>)
    ELSE Return(Str(node.duration.text))

\* the names of the children of the checklist-others container that have a
\* span; the others are skipped by the bare except
RECURSIVE OtherNames(_)
OtherNames(children) ==
    IF children = <<>> THEN <<>>
    ELSE IF Head(children).span
         THEN <<Str(Head(children).text)>> \o OtherNames(Tail(children))
         ELSE OtherNames(Tail(children))

_scrape_observers(node) ==
    IF ~node.owner THEN Raise("AttributeError", <<"text">>)
    ELSE IF ~node.others.el THEN Raise("TypeError", <<"iter">>)
    ELSE Return(List(<<Str(<<"Owner">>)>> \o OtherNames(node.others.children)))

(***************************************************************************)
(* Protocol policies.  A dict literal evaluates its values in order, so    *)
(* the first extractor that raises ends the policy with its exception.     *)
(***************************************************************************)
_point_protocol(node) ==
    LET time == _scrape_time(node)
        duration == _scrape_duration(node)
        party_size == _scrape_party_size(node)
        observers == _scrape_observers(node)
        outs == <<time, duration, party_size, observers>>
    IN IF \E i \in DOMAIN outs : Raised(outs[i]) THEN FirstRaise(outs)
       ELSE IF ~Truthy(time.val)
            THEN Raise("ValueError", <<"the time field was not found">>)
       ELSE IF ~Truthy(duration.val)
            THEN Raise("ValueError", <<"the duration field was not found">>)
       ELSE IF ~Truthy(party_size.val)
            THEN Raise("ValueError", <<"the party size field was not found">>)
       ELSE Return(Dict([time |-> time.val, duration |-> duration.val,
                         party_size |-> party_size.val,
                         observers |-> observers.val]))

_distance_protocol(node) ==
    LET time == _scrape_time(node)
        duration == _scrape_duration(node)
        distance == _scrape_distance(node)
        party_size == _scrape_party_size(node)
        observers == _scrape_observers(node)
        outs == <<time, duration, distance, party_size, observers>>
    IN IF \E i \in DOMAIN outs : Raised(outs[i]) THEN FirstRaise(outs)
       ELSE IF ~Truthy(time.val)
            THEN Raise("ValueError", <<"the time field was not found">>)
       ELSE IF duration.val = None
            THEN Raise("ValueError", <<"the duration field was not found">>)
       ELSE IF distance.val = Tuple(None, None)
            THEN Raise("ValueError", <<"the distance field was not found">>)
       ELSE IF ~Truthy(party_size.val)
            THEN Raise("ValueError", <<"the party size field was not found">>)
       ELSE Return(Dict([time |-> time.val, duration |-> duration.val,
                         distance |-> distance.val,
                         party_size |-> party_size.val,
                         observers |-> observers.val]))

_incidental_observations(node) ==
    LET observers == _scrape_observers(node)
        time == _scrape_time(node)
        outs == <<observers, time>>
        r0 == [observers |-> observers.val]
        r1 == IF Truthy(time.val) THEN [time |-> time.val] @@ r0 ELSE r0
    IN IF \E i \in DOMAIN outs : Raised(outs[i]) THEN FirstRaise(outs)
       ELSE Return(Dict(r1))

_historical_observations(node) ==
    LET observers == _scrape_observers(node)
        time == _scrape_time(node)
        duration == _scrape_duration(node)
        distance == _scrape_distance(node)
        area == _scrape_area(node)
        party_size == _scrape_party_size(node)
        outs == <<observers, time, duration, distance, area, party_size>>
        r0 == [observers |-> observers.val]
        r1 == IF Truthy(time.val) THEN [time |-> time.val] @@ r0 ELSE r0
        r2 == IF Truthy(duration.val)
              THEN [duration |-> duration.val] @@ r1 ELSE r1
        r3 == IF distance.val # Tuple(None, None)
              THEN [distance |-> distance.val] @@ r2 ELSE r2
        r4 == IF area.val # Tuple(None, None)
              THEN [area |-> area.val] @@ r3 ELSE r3
        r5 == IF Truthy(party_size.val)
              THEN [party_size |-> party_size.val] @@ r4 ELSE r4
    IN IF \E i \in DOMAIN outs : Raised(outs[i]) THEN FirstRaise(outs)
       ELSE Return(Dict(r5))

\* a variant that forgets del results["area"]
_scrape_area_fields_keeps_area(include_area, node) ==
    LET time == _scrape_time(node)
        area == _scrape_area(node)
        duration == _scrape_duration(node)
        party_size == _scrape_party_size(node)
        observers == _scrape_observers(node)
        outs == <<time, area, duration, party_size, observers>>
    IN IF \E i \in DOMAIN outs : Raised(outs[i]) THEN FirstRaise(outs)
       ELSE IF ~Truthy(time.val)
            THEN Raise("ValueError", <<"the time field was not found">>)
       ELSE IF include_area /\ area.val = Tuple(None, None)
            THEN Raise("ValueError", <<"the area field was not found">>)
       ELSE IF duration.val = None
            THEN Raise("ValueError", <<"the duration field was not found">>)
       ELSE IF ~Truthy(party_size.val)
            THEN Raise("ValueError", <<"the party size field was not found">>)
       ELSE Return(Dict([time |-> time.val, area |-> area.val,
                         duration |-> duration.val,
                         party_size |-> party_size.val,
                         observers |-> observers.val]))

\* a variant that checks the mandatory fields as it goes and reads the
\* area only when it is included
_scrape_area_fields_checks_first(include_area, node) ==
    LET time == _scrape_time(node)
        area == IF include_area THEN _scrape_area(node)
                ELSE Return(Tuple(None, None))
        duration == _scrape_duration(node)
        party_size == _scrape_party_size(node)
        observers == _scrape_observers(node)
        kept == [time |-> time.val, duration |-> duration.val,
                 party_size |-> party_size.val,
                 observers |-> observers.val]
    IN IF Raised(time) THEN time
       ELSE IF ~Truthy(time.val)
            THEN Raise("ValueError", <<"the time field was not found">>)
       ELSE IF Raised(area) THEN area
       ELSE IF include_area /\ area.val = Tuple(None, None)
            THEN Raise("ValueError", <<"the area field was not found">>)
       ELSE IF Raised(duration) THEN duration
       ELSE IF duration.val = None
            THEN Raise("ValueError", <<"the duration field was not found">>)
       ELSE IF Raised(party_size) THEN party_size
       ELSE IF ~Truthy(party_size.val)
            THEN Raise("ValueError", <<"the party size field was not found">>)
       ELSE IF Raised(observers) THEN observers
       ELSE Return(Dict(IF include_area THEN [area |-> area.val] @@ kept
                        ELSE kept))

_scrape_area_fields(include_area, node) ==
    LET time == _scrape_time(node)
        area == _scrape_area(node)
        duration == _scrape_duration(node)
        party_size == _scrape_party_size(node)
        observers == _scrape_observers(node)
        outs == <<time, area, duration, party_size, observers>>
        kept == [time |-> time.val, duration |-> duration.val,
                 party_size |-> party_size.val,
                 observers |-> observers.val]
    IN IF \E i \in DOMAIN outs : Raised(outs[i]) THEN FirstRaise(outs)
       ELSE IF ~Truthy(time.val)
            THEN Raise("ValueError", <<"the time field was not found">>)
       ELSE IF include_area /\ area.val = Tuple(None, None)
            THEN Raise("ValueError", <<"the area field was not found">>)
       ELSE IF duration.val = None
            THEN Raise("ValueError", <<"the duration field was not found">>)
       ELSE IF ~Truthy(party_size.val)
            THEN Raise("ValueError", <<"the party size field was not found">>)
       ELSE Return(Dict(IF include_area THEN [area |-> area.val] @@ kept
                        ELSE kept))

\* a variant whose closure always includes the area
_area_protocol_ignores_flag(include_area) ==
    [fn |-> "_scrape_area_fields", include_area |-> TRUE]

\* _area_protocol(include_area) returns the closure over include_area
_area_protocol(include_area) ==
    [fn |-> "_scrape_area_fields", include_area |-> include_area]

Fn(name) == [fn |-> name, include_area |-> FALSE]

_protocols ==
    [n \in {"Stationary", "Traveling", "Incidental", "Historical", "Area",
            "Banding", "eBird Pelagic Protocol", "Nocturnal Flight Call Count",
            "Random", "CWC Point Count", "CWC Area Count", "PROALAS",
            "TNC California Waterbird Count",
            "Rusty BlackbirdSpring Migration Blitz",
            "California Brown Pelican Survey"} |->
        CASE n \in {"Stationary", "Nocturnal Flight Call Count",
                    "CWC Point Count", "PROALAS",
                    "TNC California Waterbird Count"} -> Fn("_point_protocol")
          [] n \in {"Traveling", "eBird Pelagic Protocol", "Random",
                    "Rusty BlackbirdSpring Migration Blitz",
                    "California Brown Pelican Survey"} -> Fn("_distance_protocol")
          [] n = "Incidental" -> Fn("_incidental_observations")
          [] n = "Historical" -> Fn("_historical_observations")
          [] n \in {"Area", "CWC Area Count"} -> _area_protocol(TRUE)
          [] n = "Banding" -> _area_protocol(FALSE)]

\* calling a registered policy on a node
CallPolicy(p, node) ==
    CASE p.fn = "_point_protocol" -> _point_protocol(node)
      [] p.fn = "_distance_protocol" -> _distance_protocol(node)
      [] p.fn = "_incidental_observations" -> _incidental_observations(node)
      [] p.fn = "_historical_observations" -> _historical_observations(node)
      [] p.fn = "_scrape_area_fields" ->
            _scrape_area_fields(p.include_area, node)

_scrape_protocol_name(node) ==
    IF ~node.protocol.el THEN Raise("AttributeError", <<"text">>)
    ELSE Return(Str(node.protocol.text))

(***************************************************************************)
(* Identifier, location, entries, comment and completion flag.             *)
(***************************************************************************)
\* the subID input: its companion is the value attribute
_scrape_identifier(node) ==
    IF ~node.subID.el THEN Raise("TypeError", <<"subscript">>)
    ELSE IF ~node.subID.companion THEN Raise("KeyError", <<"value">>)
    ELSE Return(Str(node.subID.text))

\* seq[i] of a Python list, 0-based
Index(seq, i) ==
    IF i + 1 \in DOMAIN seq THEN Return(seq[i + 1])
    ELSE Raise("IndexError", <<"list index out of range">>)

\* the maps link: its href split on "=", each piece given by its
\* comma-separated parts
_scrape_coords(node) ==
    IF ~node.location.coords.el THEN Raise("AttributeError", <<"attrs">>)
    ELSE IF ~node.location.coords.companion THEN Raise("KeyError", <<"href">>)
    ELSE Index(node.location.coords.text, 2)

_scrape_site(node) ==
    IF ~node.location.hotspot.el THEN Raise("AttributeError", <<"span">>)
    ELSE IF ~node.location.hotspot.span THEN Raise("AttributeError", <<"text">>)
    ELSE Return(Str(node.location.hotspot.name))

\* the hotspot link's href, split on "/"
_scrape_location_identifier(node) ==
    IF ~node.location.hotspot.el THEN Raise("AttributeError", <<"attrs">>)
    ELSE LET part == Index(node.location.hotspot.href, 2)
         IN IF Raised(part) THEN part ELSE Return(Str(part.val))

\* find_all("a", href=re.compile("region"))[i].span.text
RegionSpanText(node, i) ==
    LET link == Index(node.location.regions, i)
    IN IF Raised(link) THEN link
       ELSE IF ~link.val.span THEN Raise("AttributeError", <<"text">>)
       ELSE Return(Str(link.val.name))

\* find_all("a", href=re.compile("region"))[i].attrs["href"].split("/")[2]
RegionCode(node, i) ==
    LET link == Index(node.location.regions, i)
    IN IF Raised(link) THEN link
       ELSE LET part == Index(link.val.href, 2)
            IN IF Raised(part) THEN part ELSE Return(Str(part.val))

_scrape_subnational2(node) ==
    IF node.location.regions = <<>> THEN Raise("AttributeError", <<"text">>)
    ELSE Return(Str(node.location.regions[1].name))

_scrape_subnational2_code(node) ==
    IF node.location.regions = <<>> THEN Raise("AttributeError", <<"attrs">>)
    ELSE RegionCode(node, 0)

_scrape_subnational1(node) == RegionSpanText(node, 1)

_scrape_subnational1_code(node) == RegionCode(node, 1)

_scrape_country(node) == RegionSpanText(node, 2)

_scrape_country_code(node) == RegionCode(node, 2)

_scrape_location(node) ==
    LET section == IF node.location.sections > 2 THEN Return(None)
                   ELSE Raise("IndexError", <<"list index out of range">>)
        coords == _scrape_coords(node)
        outs == <<section, coords, _scrape_site(node),
                  _scrape_location_identifier(node),
                  _scrape_subnational2(node), _scrape_subnational2_code(node),
                  _scrape_subnational1(node), _scrape_subnational1_code(node),
                  _scrape_country(node), _scrape_country_code(node),
                  IF Raised(coords) THEN coords ELSE Index(coords.val, 0),
                  IF Raised(coords) THEN coords ELSE Index(coords.val, 1)>>
    IN IF \E i \in DOMAIN outs : Raised(outs[i]) THEN FirstRaise(outs)
       ELSE Return(Dict([name |-> outs[3].val, identifier |-> outs[4].val,
                         subnational2 |-> outs[5].val,
                         subnational2_code |-> outs[6].val,
                         subnational1 |-> outs[7].val,
                         subnational1_code |-> outs[8].val,
                         country |-> outs[9].val,
                         country_code |-> outs[10].val,
                         lat |-> Str(outs[11].val), lon |-> Str(outs[12].val)]))

_scrape_comment(node) == Return(None)

_scrape_species(node) ==
    IF ~node.species.el THEN Raise("AttributeError", <<"span">>)
    ELSE IF ~node.species.companion THEN Raise("AttributeError", <<"text">>)
    ELSE Return(Str(node.species.text))

\* str.strip() on a text given by its characters
RECURSIVE lstrip(_)
lstrip(cs) == IF cs # <<>> /\ Head(cs) = " " THEN lstrip(Tail(cs)) ELSE cs

RECURSIVE rstrip(_)
rstrip(cs) ==
    IF cs # <<>> /\ cs[Len(cs)] = " " THEN rstrip(SubSeq(cs, 1, Len(cs) - 1))
    ELSE cs

strip(cs) == rstrip(lstrip(cs))

lower_chars(cs) == [i \in DOMAIN cs |-> IF cs[i] = "X" THEN "x" ELSE cs[i]]

Digits == {"0", "1", "2", "3", "4", "5", "6", "7", "8", "9"}

DigitValue(c) ==
    CASE c = "0" -> 0 [] c = "1" -> 1 [] c = "2" -> 2 [] c = "3" -> 3
      [] c = "4" -> 4 [] c = "5" -> 5 [] c = "6" -> 6 [] c = "7" -> 7
      [] c = "8" -> 8 [] c = "9" -> 9

RECURSIVE DecimalValue(_)
DecimalValue(cs) ==
    IF cs = <<>> THEN 0
    ELSE 10 * DecimalValue(SubSeq(cs, 1, Len(cs) - 1)) + DigitValue(cs[Len(cs)])

\* int() on the characters of the model: decimal digits parse, an empty
\* text or any other character raises ValueError
int(cs) ==
    IF cs # <<>> /\ \A i \in DOMAIN cs : cs[i] \in Digits
    THEN Return(PyInt(DecimalValue(cs)))
    ELSE Raise("ValueError", <<"invalid literal for int()">>)

\* a variant that counts x as zero
_scrape_count_zero(node) ==
    IF ~node.count.el THEN Raise("AttributeError", <<"find_all">>)
    ELSE IF ~node.count.companion
         THEN Raise("IndexError", <<"list index out of range">>)
    ELSE LET value == lower_chars(strip(node.count.text))
         IN IF value # <<"x">> THEN int(value) ELSE Return(PyInt(0))

\* the count container: its companion is the last span inside it
_scrape_count(node) ==
    IF ~node.count.el THEN Raise("AttributeError", <<"find_all">>)
    ELSE IF ~node.count.companion
         THEN Raise("IndexError", <<"list index out of range">>)
    ELSE LET value == lower_chars(strip(node.count.text))
         IN IF value # <<"x">> THEN int(value) ELSE Return(None)

_scrape_entry(node) ==
    LET species == _scrape_species(node)
        count == _scrape_count(node)
    IN IF Raised(species) THEN species
       ELSE IF Raised(count) THEN count
       ELSE Return(Dict([species |-> species.val, count |-> count.val]))

\* the li elements of the list that carry data-observation=""
RECURSIVE ObservationItems(_)
ObservationItems(lis) ==
    IF lis = <<>> THEN <<>>
    ELSE IF Head(lis).observation
         THEN <<Head(lis)>> \o ObservationItems(Tail(lis))
         ELSE ObservationItems(Tail(lis))

RECURSIVE ScrapeTags(_, _)
ScrapeTags(tags, entries) ==
    IF tags = <<>> THEN Return(List(entries))
    ELSE LET e == _scrape_entry(Head(tags))
         IN IF Raised(e) THEN e
            ELSE ScrapeTags(Tail(tags), Append(entries, e.val))

_scrape_entries(node) ==
    IF ~node.list.el THEN Return(List(<<>>))
    ELSE ScrapeTags(ObservationItems(node.list.children), <<>>)

\* the Badge-label spans of the page in document order: the page's leading
\* badges, then the duration and distance badges
BadgeLabels(node) ==
    node.leadBadges
    \o (IF HasText(node.duration) THEN <<node.duration.text>> ELSE <<>>)
    \o (IF HasText(node.distance) THEN <<node.distance.text>> ELSE <<>>)

_scrape_complete(node) ==
    LET first == Index(BadgeLabels(node), 0)
    IN IF Raised(first) THEN first
       ELSE Return(Bool(first.val = <<"Complete">>))

(***************************************************************************)
(* The documents the calls are made on.                                    *)
(***************************************************************************)
SeqsUpTo(S, n) == UNION {[1..k -> S] : k \in 0..n}

ProtocolNames ==
    DOMAIN _protocols \cup {"stationary", "Traveling ", "Point Count"}

ProtocolStates == {NoEl} \cup {[el |-> TRUE, text |-> n] : n \in ProtocolNames}

TimeStates ==
    {NoTimeEl, TimeNoAttr, TimeEmpty, TimeMalformed, TimeStamp(7, 0),
     TimeStamp(12, 30)}

OtherChildren == {[span |-> FALSE], [span |-> TRUE, text |-> <<"Ann">>]}

OthersStates ==
    {NoEl} \cup
    {[el |-> TRUE, children |-> c] : c \in SeqsUpTo(OtherChildren, MaxOthers)}

GoodLocation ==
    [sections |-> 3,
     coords |-> WithText(<<<<"https://www.google.com/maps/search/?api">>,
                           <<"1&query">>, <<"45.42", "-75.69">>>>),
     hotspot |-> [el |-> TRUE, span |-> TRUE, name |-> <<"Mud Lake">>,
                  href |-> <<"", "hotspot", "L123">>],
     regions |-> <<[span |-> TRUE, name |-> <<"Ottawa">>,
                    href |-> <<"", "region", "CA-ON-OT">>],
                   [span |-> TRUE, name |-> <<"Ontario">>,
                    href |-> <<"", "region", "CA-ON">>],
                   [span |-> TRUE, name |-> <<"Canada">>,
                    href |-> <<"", "region", "CA">>]>>]

LocationStates ==
    {GoodLocation,
     [GoodLocation EXCEPT !.sections = 2],
     [GoodLocation EXCEPT !.coords = NoEl],
     [GoodLocation EXCEPT !.coords = NoCompanion],
     [GoodLocation EXCEPT !.coords = WithText(<<<<"https://maps">>>>)],
     [GoodLocation EXCEPT !.coords = WithText(<<<<"u">>, <<"v">>, <<"45.42">>>>)],
     [GoodLocation EXCEPT !.hotspot = NoEl],
     [GoodLocation EXCEPT !.hotspot.span = FALSE],
     [GoodLocation EXCEPT !.hotspot.href = <<"hotspot">>],
     [GoodLocation EXCEPT !.regions = <<>>],
     [GoodLocation EXCEPT !.regions = SubSeq(GoodLocation.regions, 1, 1)],
     [GoodLocation EXCEPT !.regions = SubSeq(GoodLocation.regions, 1, 2)],
     [GoodLocation EXCEPT !.regions[2].span = FALSE],
     [GoodLocation EXCEPT !.regions[3].href = <<"region">>]}

\* count badge texts, by their characters
CountTexts ==
    {<<>>, <<"x">>, <<"X">>, <<" ", "x">>, <<"X", " ">>, <<"3">>,
     <<"1", "2">>, <<" ", "1", "2", " ">>, <<"2", "1">>, <<"1", "x">>,
     <<"1", " ", "2">>, <<"a">>}

SpeciesStates == {NoEl, WithText(<<"Blue Jay">>), WithText(<<"Crow">>)}

CountStates == {NoEl, NoCompanion} \cup {WithText(t) : t \in CountTexts}

ListItems ==
    {[observation |-> FALSE, species |-> NoEl, count |-> NoEl]} \cup
    {[observation |-> TRUE, species |-> sp, count |-> c] :
        sp \in SpeciesStates, c \in CountStates}

BlueJay3 ==
    [observation |-> TRUE, species |-> WithText(<<"Blue Jay">>),
     count |-> WithText(<<"3">>)]

List0(children) == [el |-> TRUE, children |-> children]

\* a Stationary checklist with every element in place
BaseDoc ==
    [subID |-> WithText(<<"S62633426">>),
     time |-> TimeStamp(7, 0),
     protocol |-> [el |-> TRUE, text |-> "Stationary"],
     duration |-> WithText(<<"30">>),
     distance |-> NoEl,
     area |-> NoEl,
     party |-> WithText(<<"2">>),
     owner |-> TRUE,
     others |-> [el |-> TRUE, children |-> <<>>],
     location |-> GoodLocation,
     list |-> List0(<<BlueJay3>>),
     leadBadges |-> << <<"Complete">> >>]

ObserverStates ==
    {<<TRUE, o>> : o \in OthersStates} \cup
    {<<FALSE, [el |-> TRUE, children |-> <<>>]>>}

\* documents for calls of _scrape_protocol: the protocol name and every
\* field a policy reads vary
ProtocolDocs ==
    {[BaseDoc EXCEPT !.protocol = n, !.time = t, !.duration = du,
                     !.distance = di, !.area = a, !.party = p,
                     !.owner = ob[1], !.others = ob[2]] :
        n \in ProtocolStates \ {[el |-> TRUE, text |-> "Point Count"]},
        t \in TimeStates \ {TimeStamp(7, 0)},
        du \in {NoEl, NoCompanion, WithText(<<>>), WithText(<<"30">>)},
        di \in {NoEl, NoCompanion, WithText(<<"2", "km">>)},
        a \in {NoEl, WithText(<<"1.5", "ha">>), WithText(<<"2", "furlongs">>),
               WithText(<<"1.5">>)},
        p \in {NoEl, NoCompanion, WithText(<<>>), WithText(<<"2">>)},
        ob \in ObserverStates}

\* documents for calls of _scrape_checklist: every part the assembler reads
\* varies
ChecklistDocs ==
    {[BaseDoc EXCEPT !.subID = id, !.time = t, !.protocol = n,
                     !.duration = du, !.area = a, !.location = loc,
                     !.list = li, !.leadBadges = b] :
        id \in {NoEl, NoCompanion, WithText(<<"S62633426">>)},
        t \in TimeStates,
        n \in {[el |-> TRUE, text |-> x] :
                 x \in {"Stationary", "Incidental", "Banding", "Point Count"}},
        du \in {NoEl, WithText(<<"30">>)},
        a \in {NoEl, WithText(<<"2", "furlongs">>)},
        loc \in LocationStates,
        li \in {NoEl, List0(<<>>), List0(<<BlueJay3>>),
                List0(<<BlueJay3, [BlueJay3 EXCEPT !.count = NoEl]>>)},
        b \in {<<>>, << <<"Complete">> >>, << <<"Incomplete">> >>}}

\* documents for calls of _scrape_entries: the species list varies
EntriesDocs ==
    {[BaseDoc EXCEPT !.list = li] :
        li \in {NoEl} \cup
               {List0(c) : c \in SeqsUpTo(ListItems, MaxEntries)}}

UnitTokens ==
    DOMAIN _scrape_distance_units \cup DOMAIN _scrape_area_units
    \cup {"HA", "Hectares", "KM", "Miles", "furlongs", "2", "1.5"}

UnitFieldStates ==
    {NoEl, NoCompanion} \cup
    {WithText(t) : t \in SeqsUpTo(UnitTokens, MaxTokens)}

\* documents for calls of _scrape_distance and _scrape_area
UnitDocs ==
    {[BaseDoc EXCEPT !.distance = f] : f \in UnitFieldStates} \cup
    {[BaseDoc EXCEPT !.area = f] : f \in UnitFieldStates}

(***************************************************************************)
(* The calls, step by step.  entry is the function that was called, calls  *)
(* the functions it has called so far, checklist the dict literal of       *)
(* _scrape_checklist as far as it is evaluated, results the dict of        *)
(* _scrape_protocol, outcome how the call ended.                           *)
(***************************************************************************)
NoPolicy == [fn |-> "", include_area |-> FALSE]

InitCall(docs, fn, first) ==
    /\ doc \in docs
    /\ entry = fn
    /\ pc = first
    /\ checklist = EmptyDict
    /\ results = EmptyDict
    /\ policy = NoPolicy
    /\ outcome = NoOutcome
    /\ calls = <<>>

\* an exception of a callee leaves the entry function as it is
Propagate(o) ==
    /\ outcome' = o
    /\ pc' = "raised"

\* a variant that records None for a sub-extractor that fails and goes on
ChecklistKey_swallows(at, key, fn, o, next) ==
    /\ entry = "_scrape_checklist"
    /\ pc = at
    /\ calls' = Append(calls, fn)
    /\ checklist' = (key :> (IF Raised(o) THEN None ELSE o.val)) @@ checklist
    /\ pc' = next
    /\ UNCHANGED <<doc, entry, results, policy, outcome>>

\* one key of the dict literal of _scrape_checklist
ChecklistKey(at, key, fn, o, next) ==
    /\ entry = "_scrape_checklist"
    /\ pc = at
    /\ calls' = Append(calls, fn)
    /\ IF Raised(o)
       THEN Propagate(o) /\ UNCHANGED checklist
       ELSE /\ checklist' = (key :> o.val) @@ checklist
            /\ pc' = next
            /\ UNCHANGED outcome
    /\ UNCHANGED <<doc, entry, results, policy>>

ScrapeIdentifier ==
    ChecklistKey("identifier", "identifier", "_scrape_identifier",
                 _scrape_identifier(doc), "date")

ScrapeDate ==
    ChecklistKey("date", "date", "_scrape_date", _scrape_date(doc), "protocol")

\* _scrape_protocol: results = {"name": _scrape_protocol_name(node)}
ScrapeProtocolName ==
    /\ pc = "protocol"
    /\ calls' = Append(calls, "_scrape_protocol_name")
    /\ LET o == _scrape_protocol_name(doc)
       IN IF Raised(o)
          THEN Propagate(o) /\ UNCHANGED results
          ELSE /\ results' = [name |-> o.val]
               /\ pc' = "lookup"
               /\ UNCHANGED outcome
    /\ UNCHANGED <<doc, entry, checklist, policy>>

\* a variant that falls back to the point policy for an unknown name
LookupPolicy_default ==
    /\ pc = "lookup"
    /\ policy' = IF results.name.v \in DOMAIN _protocols
                 THEN _protocols[results.name.v]
                 ELSE Fn("_point_protocol")
    /\ pc' = "policy"
    /\ UNCHANGED <<doc, entry, checklist, results, calls, outcome>>

\* _scrape_protocol: _protocols[results["name"]]
LookupPolicy ==
    /\ pc = "lookup"
    /\ IF results.name.v \in DOMAIN _protocols
       THEN /\ policy' = _protocols[results.name.v]
            /\ pc' = "policy"
            /\ UNCHANGED outcome
       ELSE /\ Propagate(Raise("KeyError", <<results.name.v>>))
            /\ UNCHANGED policy
    /\ UNCHANGED <<doc, entry, checklist, results, calls>>

\* _scrape_protocol: results.update(<policy>(node)); return results
InvokePolicy ==
    /\ pc = "policy"
    /\ calls' = Append(calls, policy.fn)
    /\ LET o == CallPolicy(policy, doc)
           updated == o.val.v @@ results
       IN IF Raised(o)
          THEN Propagate(o) /\ UNCHANGED <<results, checklist>>
          ELSE /\ results' = updated
               /\ IF entry = "_scrape_protocol"
                  THEN /\ outcome' = Return(Dict(updated))
                       /\ pc' = "returned"
                       /\ UNCHANGED checklist
                  ELSE /\ checklist' = ("protocol" :> Dict(updated)) @@ checklist
                       /\ pc' = "location"
                       /\ UNCHANGED outcome
    /\ UNCHANGED <<doc, entry, policy>>

ScrapeLocation ==
    ChecklistKey("location", "location", "_scrape_location",
                 _scrape_location(doc), "entries")

ScrapeEntries ==
    ChecklistKey("entries", "entries", "_scrape_entries",
                 _scrape_entries(doc), "comment")

ScrapeComment ==
    ChecklistKey("comment", "comment", "_scrape_comment",
                 _scrape_comment(doc), "complete")

\* the last key of the dict literal; the dict is returned
ScrapeComplete ==
    /\ entry = "_scrape_checklist"
    /\ pc = "complete"
    /\ calls' = Append(calls, "_scrape_complete")
    /\ LET o == _scrape_complete(doc)
           whole == ("complete" :> o.val) @@ checklist
       IN IF Raised(o)
          THEN Propagate(o) /\ UNCHANGED checklist
          ELSE /\ checklist' = whole
               /\ outcome' = Return(Dict(whole))
               /\ pc' = "returned"
    /\ UNCHANGED <<doc, entry, results, policy>>

\* a call of one extractor on the document
CallExtractor(fn, o) ==
    /\ entry = fn
    /\ pc = "call"
    /\ calls' = Append(calls, fn)
    /\ outcome' = o
    /\ pc' = IF Raised(o) THEN "raised" ELSE "returned"
    /\ UNCHANGED <<doc, entry, checklist, results, policy>>

CallScrapeEntries == CallExtractor("_scrape_entries", _scrape_entries(doc))

CallScrapeDistance == CallExtractor("_scrape_distance", _scrape_distance(doc))

CallScrapeArea == CallExtractor("_scrape_area", _scrape_area(doc))

(***************************************************************************)
(* Specifications: one per function called.                                *)
(***************************************************************************)
InitChecklist == InitCall(ChecklistDocs, "_scrape_checklist", "identifier")

NextChecklist ==
    \/ ScrapeIdentifier
    \/ ScrapeDate
    \/ ScrapeProtocolName
    \/ LookupPolicy
    \/ InvokePolicy
    \/ ScrapeLocation
    \/ ScrapeEntries
    \/ ScrapeComment
    \/ ScrapeComplete

Spec == InitChecklist /\ [][NextChecklist]_vars

InitProtocol == InitCall(ProtocolDocs, "_scrape_protocol", "protocol")

NextProtocol == ScrapeProtocolName \/ LookupPolicy \/ InvokePolicy

SpecProtocol == InitProtocol /\ [][NextProtocol]_vars

InitEntries == InitCall(EntriesDocs, "_scrape_entries", "call")

NextEntries == CallScrapeEntries

SpecEntries == InitEntries /\ [][NextEntries]_vars

InitUnits ==
    \E fn \in {"_scrape_distance", "_scrape_area"} : InitCall(UnitDocs, fn, "call")

NextUnits == CallScrapeDistance \/ CallScrapeArea

SpecUnits == InitUnits /\ [][NextUnits]_vars

(***************************************************************************)
(* Vocabulary of the properties.                                           *)
(***************************************************************************)
Ended == pc \in {"returned", "raised"}

PointNames ==
    {"Stationary", "Nocturnal Flight Call Count", "CWC Point Count", "PROALAS",
     "TNC California Waterbird Count"}

DistanceNames ==
    {"Traveling", "eBird Pelagic Protocol", "Random",
     "Rusty BlackbirdSpring Migration Blitz", "California Brown Pelican Survey"}

AreaNames == {"Area", "CWC Area Count"}

SupportedNames ==
    PointNames \cup DistanceNames \cup AreaNames
    \cup {"Banding", "Incidental", "Historical"}

\* the mandatory fields of a protocol name, as the policy shapes declare them
MandatoryFields(n) ==
    CASE n \in PointNames \cup {"Banding"} ->
            {"time", "duration", "party_size", "observers"}
      [] n \in DistanceNames ->
            {"time", "duration", "distance", "party_size", "observers"}
      [] n \in AreaNames ->
            {"time", "duration", "area", "party_size", "observers"}
      [] OTHER -> {"observers"}

\* the mandatory-field-missing failure that names a field
FieldMissing(f) ==
    CASE f = "time" -> Raise("ValueError", <<"the time field was not found">>)
      [] f = "duration" ->
            Raise("ValueError", <<"the duration field was not found">>)
      [] f = "distance" ->
            Raise("ValueError", <<"the distance field was not found">>)
      [] f = "area" -> Raise("ValueError", <<"the area field was not found">>)
      [] f = "party_size" ->
            Raise("ValueError", <<"the party size field was not found">>)
      [] f = "observers" ->
            Raise("ValueError", <<"the observers field was not found">>)

FieldMissingFailures ==
    {FieldMissing(f) :
        f \in {"time", "duration", "distance", "area", "party_size", "observers"}}

AreaUnitKeys == {"hectare(s)", "hectares", "ha", "acre(s)", "acres"}

DistanceUnitKeys ==
    {"kilometer(s)", "kilometre(s)", "km(s)", "kilometers", "kilometres", "km",
     "kms", "mile(s)", "miles"}

\* a unit field with a number and a unit token after it
HasUnitToken(f) == HasText(f) /\ Len(f.text) >= 2 /\ f.text[1] \in FloatTokens

UnitToken(f) == lower(f.text[2])

\* a document contains a field: its elements are there, with a text that
\* is not empty (for time: a timestamp; for area: a number and a listed unit)
Contains(d, f) ==
    CASE f = "time" -> d.time.el /\ d.time.attr = "stamp"
      [] f = "duration" -> HasText(d.duration) /\ d.duration.text # <<>>
      [] f = "distance" -> HasText(d.distance) /\ d.distance.text # <<>>
      [] f = "area" -> HasUnitToken(d.area) /\ UnitToken(d.area) \in AreaUnitKeys
      [] f = "party_size" -> HasText(d.party) /\ d.party.text # <<>>
      [] f = "observers" -> d.owner /\ d.others.el

\* the document without a field: its elements are taken out
Remove(d, f) ==
    CASE f = "time" -> [d EXCEPT !.time = NoTimeEl]
      [] f = "duration" -> [d EXCEPT !.duration = NoEl]
      [] f = "distance" -> [d EXCEPT !.distance = NoEl]
      [] f = "area" -> [d EXCEPT !.area = NoEl]
      [] f = "party_size" -> [d EXCEPT !.party = NoEl]
      [] f = "observers" -> [d EXCEPT !.owner = FALSE, !.others = NoEl]

Keys(o) == DOMAIN o.val.v

(***************************************************************************)
(* C1.  For every supported protocol name and every field mandatory for    *)
(* its policy, a document on which extraction succeeds, with that single   *)
(* field removed, makes the policy fail with the mandatory-field-missing   *)
(* failure that names the field.  Checked under SpecProtocol.              *)
(***************************************************************************)
C1_RemovedMandatoryFieldFails ==
    (pc = "returned" /\ doc.protocol.text \in SupportedNames) =>
        \A f \in MandatoryFields(doc.protocol.text) :
            CallPolicy(_protocols[doc.protocol.text], Remove(doc, f))
                = FieldMissing(f)

(***************************************************************************)
(* C2.  A document whose protocol display name is not one of the 15 keys   *)
(* of the registry makes _scrape_protocol fail with the lookup failure     *)
(* that names the value; no policy is invoked and none is substituted,     *)
(* whatever the other fields are.  Checked under SpecProtocol.             *)
(***************************************************************************)
C2_UnsupportedProtocolFails ==
    (doc.protocol.el /\ doc.protocol.text \notin SupportedNames) =>
        /\ pc \in {"protocol", "lookup", "raised"}
        /\ policy = NoPolicy
        /\ \A i \in DOMAIN calls : calls[i] = "_scrape_protocol_name"
        /\ pc = "raised" => outcome = Raise("KeyError", <<doc.protocol.text>>)
        /\ pc # "raised" => outcome = NoOutcome

C2_Witness ==
    /\ pc = "raised"
    /\ outcome = Raise("KeyError", <<"stationary">>)
    /\ \A f \in {"time", "duration", "party_size", "observers"} :
          Contains(doc, f)

(***************************************************************************)
(* C3.  For each supported protocol name, the registered policy on a       *)
(* document that contains every mandatory field of the protocol returns a  *)
(* record whose keys are exactly the name plus the fields declared for     *)
(* the variant.  Checked under SpecProtocol.                               *)
(***************************************************************************)
DeclaredKeys(n) == {"name"} \cup MandatoryFields(n)

ExactKeysNames == PointNames \cup DistanceNames \cup AreaNames \cup {"Banding"}

OptionalFields == {"time", "duration", "distance", "area", "party_size"}

Absent(d, f) ==
    CASE f = "time" -> ~d.time.el
      [] f = "duration" -> ~d.duration.el
      [] f = "distance" -> ~d.distance.el
      [] f = "area" -> ~d.area.el
      [] f = "party_size" -> ~d.party.el

C5_HistoricalOptionalFields ==
    (/\ Ended
     /\ doc.protocol.el
     /\ doc.protocol.text = "Historical"
     /\ Contains(doc, "observers")
     /\ \A f \in OptionalFields : Absent(doc, f) \/ Contains(doc, f))
    => /\ Returned(outcome)
       /\ \A f \in OptionalFields : (f \in Keys(outcome)) <=> Contains(doc, f)

(***************************************************************************)
(* C7.  For protocol "Banding", no record that extraction returns has the  *)
(* key "area", whether or not the document has an area field; and the      *)
(* absence of an area field never makes a Banding extraction fail: with    *)
(* no area field, a failure is never the area-missing failure, and a       *)
(* document that contains the four mandatory fields yields a record.       *)
(* Checked under SpecProtocol.                                             *)
(***************************************************************************)
C7_BandingNeverArea ==
    (Ended /\ doc.protocol.el /\ doc.protocol.text = "Banding") =>
        /\ Returned(outcome) => "area" \notin Keys(outcome)
        /\ (~doc.area.el /\ Raised(outcome)) =>
              /\ outcome # FieldMissing("area")
              /\ \E f \in MandatoryFields("Banding") : ~Contains(doc, f)

C7_Witness ==
    /\ pc = "returned"
    /\ doc.protocol.text = "Banding"
    /\ doc.area = WithText(<<"1.5", "ha">>)
    /\ "area" \notin Keys(outcome)

(***************************************************************************)
(* C10.  In the area policy shape the field extractors run before any      *)
(* mandatory-field check and before the area key is dropped.  So for       *)
(* "Banding" a document whose area field has a unit token that is not in   *)
(* the area table fails with the unit lookup failure and returns no        *)
(* record; and in every area-shape protocol a failure raised inside an     *)
(* extractor wins over every mandatory-field-missing failure.              *)
(* Checked under SpecProtocol.                                             *)
(***************************************************************************)
AreaShapeNames == AreaNames \cup {"Banding"}

UnlistedAreaUnit(d) ==
    HasUnitToken(d.area) /\ UnitToken(d.area) \notin AreaUnitKeys

\* the time extractor, the only one that runs before the area extractor,
\* raises: no time element, no datetime attribute, or a malformed timestamp
TimeExtractorRaises(d) == ~d.time.el \/ d.time.attr \in {"missing", "malformed"}

\* some extractor of the area shape raises
AnExtractorRaises(d) ==
    \/ TimeExtractorRaises(d)
    \/ d.area.el /\ ~Contains(d, "area")
    \/ d.duration.el /\ ~d.duration.companion
    \/ ~d.party.el \/ ~d.party.companion
    \/ ~d.owner \/ ~d.others.el

\* the claim as stated: the unit lookup failure, whatever else the
\* document holds
C10_UnitFailureOnBanding ==
    (/\ Ended
     /\ doc.protocol.el
     /\ doc.protocol.text = "Banding"
     /\ UnlistedAreaUnit(doc))
    => outcome = Raise("KeyError", <<UnitToken(doc.area)>>)

\* the claim as amended: the unit lookup failure when the time extractor
\* does not raise first, and a failure in every case
C10_ExtractorsBeforeChecks ==
    (Ended /\ doc.protocol.el /\ doc.protocol.text \in AreaShapeNames) =>
        /\ UnlistedAreaUnit(doc) =>
              /\ Raised(outcome)
              /\ ~TimeExtractorRaises(doc) =>
                    outcome = Raise("KeyError", <<UnitToken(doc.area)>>)
        /\ AnExtractorRaises(doc) =>
              (Raised(outcome) /\ outcome \notin FieldMissingFailures)

C10_Witness ==
    /\ pc = "raised"
    /\ doc.protocol.el
    /\ doc.protocol.text = "Banding"
    /\ doc.area = WithText(<<"2", "furlongs">>)
    /\ doc.time.el /\ doc.time.attr = "empty"
    /\ ~doc.duration.el
    /\ outcome = Raise("KeyError", <<"furlongs">>)

(***************************************************************************)
(* C4.  End to end, a document with protocol "Incidental" and no time      *)
(* field (the timestamp element is missing) makes _scrape_checklist raise  *)
(* no failure and return a record whose protocol fields are the observers  *)
(* only, besides the name.  Checked under Spec, on documents in which      *)
(* every other part is in place.                                           *)
(***************************************************************************)
OtherPartsInPlace(d) ==
    /\ HasText(d.subID)
    /\ d.location = GoodLocation
    /\ d.list \in {NoEl, List0(<<>>), List0(<<BlueJay3>>)}
    /\ d.leadBadges # <<>>
    /\ Contains(d, "observers")

C4_IncidentalWithoutTime ==
    (/\ Ended
     /\ doc.protocol.text = "Incidental"
     /\ ~doc.time.el
     /\ OtherPartsInPlace(doc))
    => /\ Returned(outcome)
       /\ DOMAIN outcome.val.v["protocol"].v = {"name", "observers"}

(***************************************************************************)
(* C8.  _scrape_checklist runs its sub-extractors in the order             *)
(* identifier, date, protocol (name, then policy), location, entries,      *)
(* comment, completion flag.  The first one that fails ends the call with  *)
(* its failure as it is, none is run after it and no record is returned;   *)
(* so a call ends with a record of all seven keys or with a failure,       *)
(* never with a partial record.  Checked under Spec.                       *)
(***************************************************************************)
PolicyFunctions ==
    {"_point_protocol", "_distance_protocol", "_incidental_observations",
     "_historical_observations", "_scrape_area_fields"}

\* the functions called, in order, the policy standing for the one chosen
CallOrder ==
    <<"_scrape_identifier", "_scrape_date", "_scrape_protocol_name", "policy",
      "_scrape_location", "_scrape_entries", "_scrape_comment",
      "_scrape_complete">>

SevenKeys ==
    {"identifier", "date", "protocol", "location", "entries", "comment",
     "complete"}

\* what a sub-extractor does on the document, by its place in the order;
\* the third is the protocol name, read and then looked up in the registry
StageOutcome(i, d) ==
    CASE i = 1 -> _scrape_identifier(d)
      [] i = 2 -> _scrape_date(d)
      [] i = 3 -> IF Raised(_scrape_protocol_name(d))
                  THEN _scrape_protocol_name(d)
                  ELSE IF d.protocol.text \in SupportedNames
                       THEN _scrape_protocol_name(d)
                       ELSE Raise("KeyError", <<d.protocol.text>>)
      [] i = 4 -> CallPolicy(_protocols[d.protocol.text], d)
      [] i = 5 -> _scrape_location(d)
      [] i = 6 -> _scrape_entries(d)
      [] i = 7 -> _scrape_comment(d)
      [] i = 8 -> _scrape_complete(d)

C8_OrderAndPropagation ==
    /\ Len(calls) <= Len(CallOrder)
    /\ \A i \in DOMAIN calls :
          IF i = 4 THEN calls[i] \in PolicyFunctions ELSE calls[i] = CallOrder[i]
    \* every sub-extractor before the last one run has succeeded
    /\ \A i \in DOMAIN calls : i < Len(calls) => Returned(StageOutcome(i, doc))
    \* the call goes on exactly while nothing has failed
    /\ ~Ended =>
          /\ outcome = NoOutcome
          /\ (calls # <<>> /\ pc # "lookup") =>
                Returned(StageOutcome(Len(calls), doc))
    \* a failure is the failure of the last sub-extractor run, as it is
    /\ pc = "raised" =>
          /\ calls # <<>>
          /\ Raised(StageOutcome(Len(calls), doc))
          /\ outcome = StageOutcome(Len(calls), doc)
    \* a record has all seven keys, each from its sub-extractor
    /\ pc = "returned" =>
          /\ Len(calls) = Len(CallOrder)
          /\ Returned(outcome)
          /\ Keys(outcome) = SevenKeys
          /\ outcome.val.v["identifier"] = StageOutcome(1, doc).val
          /\ outcome.val.v["location"] = StageOutcome(5, doc).val
          /\ outcome.val.v["entries"] = StageOutcome(6, doc).val
          /\ outcome.val.v["comment"] = None
    \* the record under construction is never handed out
    /\ Returned(outcome) => DOMAIN checklist = SevenKeys

C8_Witness ==
    /\ pc = "raised"
    /\ Len(calls) = 5
    /\ calls[5] = "_scrape_location"
    /\ outcome = Raise("IndexError", <<"list index out of range">>)
    /\ DOMAIN checklist = {"identifier", "date", "protocol"}
    /\ doc.list = List0(<<BlueJay3, [BlueJay3 EXCEPT !.count = NoEl]>>)
    /\ doc.leadBadges = <<>>
(***************************************************************************)
(* C9.  _scrape_entries returns the element-wise image of the document's   *)
(* observation items: the empty sequence, and no failure, when the list    *)
(* container is absent; otherwise one Entry per observation item, in       *)
(* document order, the i-th Entry with the i-th item's species label and   *)
(* its count, where a count text of x (any case) is an absent count and a  *)
(* decimal text is that integer.  Checked under SpecEntries.               *)
(***************************************************************************)
\* the count a badge text stands for
CountOf(text) ==
    CASE text \in {<<"x">>, <<"X">>} -> None
      [] text = <<"3">> -> PyInt(3)
      [] text = <<"1", "2">> -> PyInt(12)
      [] text = <<"2", "1">> -> PyInt(21)

CountedTexts == {<<"x">>, <<"X">>, <<"3">>, <<"1", "2">>, <<"2", "1">>}

\* an observation item with a species label and a count text of the claim
WellFormedItem(item) ==
    /\ HasText(item.species)
    /\ HasText(item.count)
    /\ item.count.text \in CountedTexts

IsObservation(item) == item.observation

C9_EntriesImage ==
    (Ended /\ entry = "_scrape_entries") =>
        LET items == IF doc.list.el
                     THEN SelectSeq(doc.list.children, IsObservation)
                     ELSE <<>>
        IN /\ ~doc.list.el => outcome = Return(List(<<>>))
           /\ (\A i \in DOMAIN items : WellFormedItem(items[i])) =>
                 /\ Returned(outcome)
                 /\ Len(outcome.val.v) = Len(items)
                 /\ \A i \in DOMAIN items :
                       outcome.val.v[i] =
                           Dict([species |-> Str(items[i].species.text),
                                 count |-> CountOf(items[i].count.text)])

C9_Witness ==
    /\ pc = "returned"
    /\ entry = "_scrape_entries"
    /\ doc.list.el
    /\ Len(doc.list.children) = 2
    /\ outcome =
          Return(List(<<Dict([species |-> Str(<<"Crow">>), count |-> None]),
                        Dict([species |-> Str(<<"Blue Jay">>),
                              count |-> PyInt(12)])>>))

(***************************************************************************)
(* C6.  For the distance extractor and for the area extractor: a field     *)
(* with a unit token that is a key of the extractor's table gives a value  *)
(* that carries the table's abbreviation for the token (km or mi; ha or    *)
(* acre); a unit token that is not a key makes the extraction fail with    *)
(* the unit lookup failure.  Checked under SpecUnits; the unit token is    *)
(* the token after the number, in lower case.                              *)
(***************************************************************************)
DistanceAbbreviation(t) == IF t \in {"mile(s)", "miles"} THEN "mi" ELSE "km"

AreaAbbreviation(t) == IF t \in {"acre(s)", "acres"} THEN "acre" ELSE "ha"

\* the value is a (number, unit) pair with that unit, or a text that ends
\* with it
Carries(value, abbreviation) ==
    \/ value.py = "tuple" /\ value.v[2] = Str(<<abbreviation>>)
    \/ /\ value.py = "str"
       /\ value.v # <<>>
       /\ value.v[Len(value.v)] = abbreviation

UnitRoundTrip(f, keys, abbreviation(_)) ==
    HasUnitToken(f) =>
        IF UnitToken(f) \in keys
        THEN Returned(outcome) /\ Carries(outcome.val, abbreviation(UnitToken(f)))
        ELSE outcome = Raise("KeyError", <<UnitToken(f)>>)

C6_UnitsRoundTrip ==
    /\ (Ended /\ entry = "_scrape_distance") =>
          UnitRoundTrip(doc.distance, DistanceUnitKeys, DistanceAbbreviation)
    /\ (Ended /\ entry = "_scrape_area") =>
          UnitRoundTrip(doc.area, AreaUnitKeys, AreaAbbreviation)

\* the area half of the claim alone
C6_AreaHalf ==
    (Ended /\ entry = "_scrape_area") =>
        UnitRoundTrip(doc.area, AreaUnitKeys, AreaAbbreviation)

====
